---- MODULE Spec2Model ----
(***************************************************************************)
(* Model of ai_server/server.py: the /chat endpoint, its authentication,   *)
(* the chat router chat_with_model and the three backend adapters          *)
(* (llama-server HTTP, llama.cpp CLI subprocess, ollama).                  *)
(*                                                                         *)
(* Python strings are modelled as sequences of tokens; a token is an       *)
(* indivisible piece of text.  File names are tokenised so that a path     *)
(* separator is the token "/" and an extension is one token starting with  *)
(* a dot, which is what endswith('.gguf') and os.path.splitext look at.    *)
(***************************************************************************)
EXTENDS Integers, Sequences, FiniteSets, TLC

VARIABLES
    request,            \* r -> the inbound HTTP request (headers, JSON body)
    pc,                 \* r -> position of the thread serving request r
    local,              \* r -> local variables of chat() / chat_with_model()
    calls,              \* r -> the calls made while serving r, in order
    response,           \* r -> the HTTP response sent (or NoResponse)
    fs,                 \* the directory tree under GGUF_DIR
    fsChanges,          \* how often the environment has changed fs so far
    LLAMA_SERVER_URL    \* module global read from the environment at import

vars == <<request, pc, local, calls, response, fs, fsChanges, LLAMA_SERVER_URL>>

----------------------------------------------------------------------------
(* Python values *)

PyNone == [t |-> "None"]
PyStr(s) == [t |-> "str", v |-> s]

\* Python truthiness of None and of str/bytes values (`if not x`).
Truthy(x) == x.t # "None" /\ Len(x.v) > 0

\* dict.get(key, default) / headers.get(key)
Get(d, key, default) == IF key \in DOMAIN d THEN d[key] ELSE default

Whitespace == {" ", "\n"}

RECURSIVE LStrip(_)
LStrip(s) == IF s # << >> /\ Head(s) \in Whitespace THEN LStrip(Tail(s)) ELSE s

RECURSIVE RStrip(_)
RStrip(s) ==
    IF s # << >> /\ s[Len(s)] \in Whitespace THEN RStrip(SubSeq(s, 1, Len(s) - 1)) ELSE s

\* str.strip()
Strip(s) == RStrip(LStrip(s))

\* An exception object; str(e) is e.msg.
Exc(type, msg) == [type |-> type, msg |-> msg]

\* werkzeug: abort(code, description=d) raises an HTTPException whose str() is
\* "<code> <name>: <description>".
HttpStatusName(code) ==
    CASE code = 400 -> <<"400 Bad Request">>
      [] code = 401 -> <<"401 Unauthorized">>
      [] code = 500 -> <<"500 Internal Server Error">>

\* An HTTPException whose text is the description alone.
Abort_DescriptionOnly(code, description) == Exc("HTTPException", description)

Abort(code, description) ==
    Exc("HTTPException", HttpStatusName(code) \o <<": ">> \o description)

----------------------------------------------------------------------------
(* Configuration *)

DEFAULT_MODEL == <<"deepseek-coder-v2:latest">>

GGUF_DIR == <<"/", "data1", "/", "GGUF">>

GgufExt == ".gguf"

DirV25 == <<"DeepSeek-V2", ".5-IQ1_M">>
DirIQ2 == <<"DeepSeek-V3-0324-UD-IQ2_XXS">>
DirQ2K == <<"DeepSeek-V3-0324-UD-Q2_K_XL">>

LLAMA_CPP_MODEL_DIRS == <<DirV25, DirIQ2, DirQ2K>>

ServerUrl == PyStr(<<"http://localhost:8080">>)

\* The credential store: key "api-key:<k>" -> user (bytes), absent otherwise.
REDIS_CONNECTION ==
    [k \in {<<"key-alice">>, <<"key-blank">>} |->
        IF k = <<"key-alice">> THEN PyStr(<<"alice">>) ELSE PyStr(<< >>)]

----------------------------------------------------------------------------
(* Filesystem and model resolution *)

\* os.path.join(a, b) for a relative b
PathJoin(a, b) == a \o <<"/">> \o b

\* str.endswith(ext) for an extension token
EndsWith(file, ext) == file # << >> /\ file[Len(file)] = ext

\* Tokens that are a dot followed by text (an extension when they end a name).
ExtTokens == {".gguf", ".txt", ".5-IQ1_M"}

\* os.path.splitext(file)[0]: the text before the last dot of the last path
\* component, unless that dot is the component's leading character.
SplitExtRoot(file) ==
    IF Len(file) > 1 /\ file[Len(file)] \in ExtTokens /\ file[Len(file) - 1] # "/"
    THEN SubSeq(file, 1, Len(file) - 1)
    ELSE file

\* A directory entry of GGUF_DIR: missing, a readable directory with a
\* listing (in os.listdir order), or a path whose listing raises.
DirMissing == [kind |-> "missing", files |-> << >>]
DirOf(files) == [kind |-> "dir", files |-> files]
DirUnreadable == [kind |-> "unreadable", files |-> << >>]

\* Matching that knows no "filename without extension" form.
ModelMatches_NoStem(model, model_dir, file) ==
    \/ model = model_dir
    \/ model = model_dir \o <<"/">> \o file
    \/ model = file

\* The four identifier forms resolve_model_path accepts for one file.
ModelMatches(model, model_dir, file) ==
    \/ model = model_dir
    \/ model = model_dir \o <<"/">> \o file
    \/ model = file
    \/ model = SplitExtRoot(file)

GgufFiles(files) == SelectSeq(files, LAMBDA f : EndsWith(f, GgufExt))

\* The loop without its try/except: an unreadable directory ends the search
\* with the exception of os.listdir.
RECURSIVE ResolveFrom_NoExcept(_, _, _)
ResolveFrom_NoExcept(fsv, model, i) ==
    IF i > Len(LLAMA_CPP_MODEL_DIRS) THEN PyNone
    ELSE LET model_dir == LLAMA_CPP_MODEL_DIRS[i]
             entry == fsv[model_dir]
             gguf_files == GgufFiles(entry.files)
             hits == {j \in 1..Len(gguf_files) : ModelMatches(model, model_dir, gguf_files[j])}
         IN  IF entry.kind = "unreadable" THEN [t |-> "raise"]
             ELSE IF entry.kind = "dir" /\ hits # {}
             THEN LET first == CHOOSE j \in hits : \A k \in hits : j <= k
                  IN  PyStr(PathJoin(PathJoin(GGUF_DIR, model_dir), gguf_files[first]))
             ELSE ResolveFrom_NoExcept(fsv, model, i + 1)

\* A search that keeps the last matching file of a directory.
RECURSIVE ResolveFrom_LastMatch(_, _, _)
ResolveFrom_LastMatch(fsv, model, i) ==
    IF i > Len(LLAMA_CPP_MODEL_DIRS) THEN PyNone
    ELSE LET model_dir == LLAMA_CPP_MODEL_DIRS[i]
             entry == fsv[model_dir]
             gguf_files == GgufFiles(entry.files)
             hits == {j \in 1..Len(gguf_files) : ModelMatches(model, model_dir, gguf_files[j])}
         IN  IF entry.kind = "dir" /\ hits # {}
             THEN LET last == CHOOSE j \in hits : \A k \in hits : k <= j
                  IN  PyStr(PathJoin(PathJoin(GGUF_DIR, model_dir), gguf_files[last]))
             ELSE ResolveFrom_LastMatch(fsv, model, i + 1)

RECURSIVE ResolveFrom(_, _, _)
ResolveFrom(fsv, model, i) ==
    IF i > Len(LLAMA_CPP_MODEL_DIRS) THEN PyNone
    ELSE LET model_dir == LLAMA_CPP_MODEL_DIRS[i]
             entry == fsv[model_dir]
             gguf_files == GgufFiles(entry.files)
             hits == {j \in 1..Len(gguf_files) : ModelMatches(model, model_dir, gguf_files[j])}
         IN  IF entry.kind = "dir" /\ hits # {}
             THEN LET first == CHOOSE j \in hits : \A k \in hits : j <= k
                  IN  PyStr(PathJoin(PathJoin(GGUF_DIR, model_dir), gguf_files[first]))
             ELSE ResolveFrom(fsv, model, i + 1)

\* A resolution that joins the identifier to the base directory.
resolve_model_path_Joined(fsv, model) == PyStr(PathJoin(GGUF_DIR, model))

resolve_model_path(fsv, model) == ResolveFrom(fsv, model, 1)

\* Availability decided by the model's directory existing, whatever it holds.
is_llamacpp_available_DirExists(fsv, model) ==
    \E i \in 1..Len(LLAMA_CPP_MODEL_DIRS) :
        model = LLAMA_CPP_MODEL_DIRS[i] /\ fsv[model].kind = "dir"

is_llamacpp_available(fsv, model) == resolve_model_path(fsv, model) # PyNone

RECURSIVE AvailableFrom(_, _)
AvailableFrom(fsv, i) ==
    IF i > Len(LLAMA_CPP_MODEL_DIRS) THEN << >>
    ELSE LET model_dir == LLAMA_CPP_MODEL_DIRS[i]
             entry == fsv[model_dir]
             gguf_files == GgufFiles(entry.files)
             here == IF entry.kind = "dir"
                     THEN [j \in 1..Len(gguf_files) |-> model_dir \o <<"/">> \o gguf_files[j]]
                     ELSE << >>
         IN  here \o AvailableFrom(fsv, i + 1)

get_available_llamacpp_models(fsv) == AvailableFrom(fsv, 1)

\* str(list) as it appears inside an f-string: the entries flattened.
RECURSIVE ListText(_)
ListText(l) == IF l = << >> THEN << >> ELSE <<"'">> \o Head(l) \o <<"'">> \o ListText(Tail(l))

----------------------------------------------------------------------------
(* Inputs *)

FileReadme == <<"README", ".txt">>
FileOut == <<"outfile", ".gguf">>

\* The states of GGUF_DIR the environment moves between.
FsNoModels == [d \in {DirV25, DirIQ2, DirQ2K} |-> DirMissing]
FsOneModel == [FsNoModels EXCEPT ![DirIQ2] = DirOf(<<FileReadme, FileOut>>)]
FsNoGguf == [FsNoModels EXCEPT ![DirV25] = DirUnreadable, ![DirIQ2] = DirOf(<<FileReadme>>)]

FsStates == {FsNoModels, FsOneModel, FsNoGguf}

\* How often the environment may change GGUF_DIR during a run.
MaxFsChanges == 1

\* Identifiers that walk the directory tree: `model` is any string of the caller.
TraversalIds ==
    {<<"..", "/">> \o FileOut,
     DirIQ2 \o <<"/", "..", "/">> \o DirIQ2 \o <<"/">> \o FileOut}

ModelIds ==
    {DirIQ2, DirIQ2 \o <<"/">> \o FileOut, FileOut, <<"outfile">>, <<"nonexistent-model">>}
    \cup TraversalIds

ApiKeys == {<< >>, <<"key-alice">>, <<"key-blank">>, <<"key-unknown">>}

Contents == {<< >>, <<" ", "\n">>, <<"hi">>, <<" ", "hi", " ">>}

Modes == {<<"cli">>, <<"server">>, <<"invalid">>}

Headers == {<< >>} \cup {[h \in {"X-API-KEY"} |-> PyStr(k)] : k \in ApiKeys}

\* A JSON object is a function from the keys present to their values;
\* a JSON null decodes to None.
Field(name, values) == {<< >>} \cup {[f \in {name} |-> v] : v \in values}

Merge(f, g) == [k \in DOMAIN f \cup DOMAIN g |-> IF k \in DOMAIN f THEN f[k] ELSE g[k]]

SystemPrompts == {<<"You are a helpful coding assistant.">>}

Bodies ==
    {Merge(m, Merge(c, Merge(l, p))) :
        m \in Field("model", {PyStr(x) : x \in ModelIds}),
        c \in Field("content", {PyStr(x) : x \in Contents} \cup {PyNone}),
        l \in Field("llama_mode", {PyStr(x) : x \in Modes}),
        p \in Field("system_prompt", {PyStr(x) : x \in SystemPrompts})}

Requests == [headers : Headers, json : Bodies]

\* jsonify(x): a bare JSON string, or the object {"error": <message>}.
\* The answer encoded twice: a JSON string holding a JSON string.
JsonString_Quoted(v) == [json |-> "string", v |-> <<"\"">> \o v \o <<"\"">>]

JsonString(v) == [json |-> "string", v |-> v]
JsonError(msg) == [json |-> "object", error |-> msg]

NoResponse == [status |-> 0, body |-> [json |-> "none"]]

NoResult == [kind |-> "none"]
Returned(value) == [kind |-> "return", value |-> value]
Raised(exc) == [kind |-> "raise", exc |-> exc]

LocalInit ==
    [api_key |-> PyNone, user |-> PyNone,
     model |-> << >>, content |-> PyNone, llama_mode |-> << >>,
     mode |-> << >>, available |-> FALSE, model_path |-> PyNone,
     http_status |-> 0, e_ollama |-> NoResult, wrap |-> "none",
     result |-> NoResult, exc |-> NoResult]

\* An entry of the call log: a call with its arguments, or a backend
\* adapter's return value / the text of the exception it raised.
Call(fn, args) == [fn |-> fn, ev |-> "call", args |-> args]

\* A view function that begins with the validation of the content.
FirstStep_Validate == "chat"

\* Line 264: the first statement of chat() is the call of authenticate().
FirstStep == "authenticate"

InitFor(R, inputs) ==
    /\ request \in [R -> inputs]
    /\ pc = [r \in R |-> FirstStep]
    /\ local = [r \in R |-> LocalInit]
    /\ calls = [r \in R |-> << >>]
    /\ response = [r \in R |-> NoResponse]
    /\ fs \in FsStates
    /\ fsChanges = 0
    /\ LLAMA_SERVER_URL \in {PyNone, ServerUrl}

Init == InitFor({1}, Requests)

Reqs == DOMAIN pc

----------------------------------------------------------------------------
(* The endpoint: authenticate, chat, the error handler *)

Log(r, cs) == calls' = [calls EXCEPT ![r] = @ \o cs]

\* An exception leaves the view function: Flask hands it to internal_error.
Throw(r, loc, exc) ==
    /\ pc' = [pc EXCEPT ![r] = "internal_error"]
    /\ local' = [local EXCEPT ![r] = [loc EXCEPT !.exc = Raised(exc)]]

\* Line 251: `if not api_key`.
KeyMissing(api_key) == ~Truthy(api_key)

\* A lookup whose result is never checked.
UserInvalid_NeverRejects(user) == FALSE

\* Line 255: `if not user`.
UserInvalid(user) == ~Truthy(user)

\* The emptiness test without the strip().
ContentBlank_NoStrip(content) == content = << >>

\* Line 270: `if not content.strip()`.
ContentBlank(content) == Strip(content) = << >>

\* authenticate(), lines 250-252: read the header, reject a missing/empty key.
AuthenticateKey(r) ==
    /\ pc[r] = "authenticate"
    /\ LET api_key == Get(request[r].headers, "X-API-KEY", PyNone)
       IN  IF KeyMissing(api_key)
           THEN Throw(r, local[r], Abort(401, <<"Missing API key">>))
           ELSE /\ pc' = [pc EXCEPT ![r] = "redis_get"]
                /\ local' = [local EXCEPT ![r].api_key = api_key]
    /\ UNCHANGED <<request, calls, response, fs, fsChanges, LLAMA_SERVER_URL>>

RedisOutcomes == {"reply", "error"}

\* authenticate(), lines 254-258: one lookup in the credential store.
RedisGet(r) ==
    /\ pc[r] = "redis_get"
    /\ \E o \in RedisOutcomes :
        LET key == local[r].api_key.v
            user == Get(REDIS_CONNECTION, key, PyNone)
        IN  /\ Log(r, <<Call("REDIS_CONNECTION.get", <<<<"api-key:">> \o key>>)>>)
            /\ IF o = "error"
               THEN Throw(r, local[r], Exc("ConnectionError", <<"Error connecting to redis">>))
               ELSE IF UserInvalid(user)
               THEN Throw(r, local[r], Abort(401, <<"Invalid API key">>))
               ELSE /\ pc' = [pc EXCEPT ![r] = "chat"]
                    /\ local' = [local EXCEPT ![r].user = user]
    /\ UNCHANGED <<request, response, fs, fsChanges, LLAMA_SERVER_URL>>

\* A server whose requests default to server mode.
DefaultLlamaMode_Server == <<"server">>

\* Line 268: params.get('llama_mode', 'cli').
DefaultLlamaMode == <<"cli">>

\* chat(), lines 265-271: read the parameters and validate the content.
Chat(r) ==
    /\ pc[r] = "chat"
    /\ LET params == request[r].json
           model == Get(params, "model", PyStr(DEFAULT_MODEL))
           content == Get(params, "content", PyStr(<< >>))
           llama_mode == Get(params, "llama_mode", PyStr(DefaultLlamaMode))
           loc == [local[r] EXCEPT !.model = model.v, !.content = content,
                                   !.llama_mode = llama_mode.v, !.mode = llama_mode.v]
       IN  IF content.t # "str"
           THEN Throw(r, loc, Exc("AttributeError",
                                  <<"'NoneType' object has no attribute 'strip'">>))
           ELSE IF ContentBlank(content.v)
           THEN Throw(r, loc, Abort(400, <<"Missing prompt content">>))
           ELSE /\ pc' = [pc EXCEPT ![r] = "chat_with_model"]
                /\ local' = [local EXCEPT ![r] = loc]
    /\ UNCHANGED <<request, calls, response, fs, fsChanges, LLAMA_SERVER_URL>>

\* chat(), lines 273-278: the router returned or raised.
ChatResult(r) ==
    /\ pc[r] = "chat_result"
    /\ LET res == local[r].result
       IN  IF res.kind = "return"
           THEN /\ response' = [response EXCEPT ![r] = [status |-> 200, body |-> JsonString(res.value)]]
                /\ pc' = [pc EXCEPT ![r] = "done"]
                /\ UNCHANGED local
           ELSE /\ Throw(r, local[r], Abort(500, res.exc.msg))
                /\ UNCHANGED response
    /\ UNCHANGED <<request, calls, fs, fsChanges, LLAMA_SERVER_URL>>

\* internal_error(), lines 280-282: every exception becomes {"error": str(e)}, 500.
InternalError(r) ==
    /\ pc[r] = "internal_error"
    /\ response' = [response EXCEPT ![r] = [status |-> 500, body |-> JsonError(local[r].exc.exc.msg)]]
    /\ pc' = [pc EXCEPT ![r] = "done"]
    /\ UNCHANGED <<request, local, calls, fs, fsChanges, LLAMA_SERVER_URL>>

----------------------------------------------------------------------------
(* The router chat_with_model *)

ModeServer == <<"server">>
ModeCli == <<"cli">>

\* A router that sends every mode but "server" round again.
RouteMode_RecurseAlways(mode, url) ==
    IF mode = ModeServer
    THEN IF ~Truthy(url) THEN "config_error" ELSE "check_available"
    ELSE "recurse_cli"

\* The router without the URL check of server mode.
RouteMode_NoUrlCheck(mode, url) ==
    IF mode \in {ModeServer, ModeCli} THEN "check_available" ELSE "recurse_cli"

\* The URL check hoisted in front of the mode test.
RouteMode_UrlCheckFirst(mode, url) ==
    IF ~Truthy(url) THEN "config_error"
    ELSE IF mode \in {ModeServer, ModeCli} THEN "check_available"
    ELSE "recurse_cli"

\* Lines 201-204, 220, 243-245: what the router does with llama_mode.
RouteMode(mode, url) ==
    IF mode = ModeServer
    THEN IF ~Truthy(url) THEN "config_error" ELSE "check_available"
    ELSE IF mode = ModeCli THEN "check_available"
    ELSE "recurse_cli"

\* A router that starts every local model with llama-cli.
FirstBackend_CliFirst(mode, available) ==
    IF available THEN "chat_with_llamacpp" ELSE "chat_with_ollama"

\* Lines 206-208, 216-218, 221-223, 233-236: the first backend called.
FirstBackend(mode, available) ==
    IF available
    THEN IF mode = ModeServer THEN "chat_with_llama_server_http" ELSE "chat_with_llamacpp"
    ELSE "chat_with_ollama"

\* Server mode going back to llama-server after llama-cli has failed.
OnBackendFailure_HttpAgain(mode, available, backend) ==
    IF mode = ModeServer
    THEN IF available /\ backend = "chat_with_llama_server_http" THEN "chat_with_llamacpp"
         ELSE IF available /\ backend = "chat_with_llamacpp" THEN "chat_with_llama_server_http"
         ELSE "propagate"
    ELSE IF available /\ backend = "chat_with_llamacpp" THEN "chat_with_ollama"
         ELSE IF available THEN "wrap_both"
         ELSE "wrap_unavailable"

\* Lines 209-215, 224-232, 237-241: what follows an exception of a backend.
OnBackendFailure(mode, available, backend) ==
    IF mode = ModeServer
    THEN IF available /\ backend = "chat_with_llama_server_http" THEN "chat_with_llamacpp"
         ELSE IF available /\ backend = "chat_with_llamacpp" THEN "chat_with_ollama"
         ELSE "propagate"
    ELSE IF available /\ backend = "chat_with_llamacpp" THEN "chat_with_ollama"
         ELSE IF available THEN "wrap_both"
         ELSE "wrap_unavailable"

\* One answer shared by every request in flight (a module-level result).
BackendReturns_Shared(r, loc, value) ==
    /\ pc' = [pc EXCEPT ![r] = "chat_result"]
    /\ local' = [q \in Reqs |->
                    [(IF q = r THEN loc ELSE local[q]) EXCEPT !.result = Returned(value)]]

\* A backend adapter returned: the router returns its value.
BackendReturns(r, loc, value) ==
    /\ pc' = [pc EXCEPT ![r] = "chat_result"]
    /\ local' = [local EXCEPT ![r] = [loc EXCEPT !.result = Returned(value)]]

\* A backend adapter raised: the router's except clauses decide.
BackendRaises(r, loc, backend, exc) ==
    LET then == OnBackendFailure(loc.mode, loc.available, backend)
    IN  IF then = "propagate"
        THEN /\ pc' = [pc EXCEPT ![r] = "chat_result"]
             /\ local' = [local EXCEPT ![r] = [loc EXCEPT !.result = Raised(exc)]]
        ELSE IF then \in {"wrap_both", "wrap_unavailable"}
        THEN /\ pc' = [pc EXCEPT ![r] = "router_wrap"]
             /\ local' = [local EXCEPT ![r] = [loc EXCEPT !.e_ollama = Raised(exc), !.wrap = then]]
        ELSE /\ pc' = [pc EXCEPT ![r] = then]
             /\ local' = [local EXCEPT ![r] = loc]

Returns(fn, value) == [fn |-> fn, ev |-> "return", args |-> <<value>>]
Raises(fn, exc) == [fn |-> fn, ev |-> "raise", args |-> <<exc.msg>>]

\* chat_with_model entry, lines 199-204, 220, 243-245.
ChatWithModel(r) ==
    /\ pc[r] = "chat_with_model"
    /\ LET loc == local[r]
           route == RouteMode(loc.mode, LLAMA_SERVER_URL)
       IN  /\ Log(r, <<Call("chat_with_model", <<loc.model, loc.content.v, loc.mode>>)>>)
           /\ IF route = "config_error"
              THEN /\ pc' = [pc EXCEPT ![r] = "chat_result"]
                   /\ local' = [local EXCEPT ![r].result =
                        Raised(Exc("Exception",
                            <<"LLAMA_SERVER_URL environment variable not set", " for server mode">>))]
              ELSE IF route = "check_available"
              THEN /\ pc' = [pc EXCEPT ![r] = "is_llamacpp_available"]
                   /\ UNCHANGED local
              ELSE /\ pc' = pc
                   /\ local' = [local EXCEPT ![r].mode = ModeCli]
    /\ UNCHANGED <<request, response, fs, fsChanges, LLAMA_SERVER_URL>>

\* Lines 206 and 221: the availability check reads the filesystem.
IsLlamacppAvailable(r) ==
    /\ pc[r] = "is_llamacpp_available"
    /\ LET available == is_llamacpp_available(fs, local[r].model)
       IN  /\ Log(r, <<Call("resolve_model_path", <<local[r].model>>)>>)
           /\ pc' = [pc EXCEPT ![r] = FirstBackend(local[r].mode, available)]
           /\ local' = [local EXCEPT ![r].available = available]
    /\ UNCHANGED <<request, response, fs, fsChanges, LLAMA_SERVER_URL>>

\* Lines 229-232 and 238-241: list the local models and raise the wrapped error.
RouterWrap(r) ==
    /\ pc[r] = "router_wrap"
    /\ LET loc == local[r]
           available_llamacpp == get_available_llamacpp_models(fs)
           head == IF loc.wrap = "wrap_both"
                   THEN <<"Model '">> \o loc.model \o <<"' failed in both llama-cli and ollama. ">>
                   ELSE <<"Model '">> \o loc.model
                            \o <<"' not available in llama.cpp and failed in ollama. ">>
           msg == head \o <<"Available llama.cpp models: ">> \o ListText(available_llamacpp)
                       \o <<". Ollama error: ">> \o loc.e_ollama.exc.msg
       IN  /\ Log(r, <<Call("get_available_llamacpp_models", << >>)>>)
           /\ pc' = [pc EXCEPT ![r] = "chat_result"]
           /\ local' = [local EXCEPT ![r].result = Raised(Exc("Exception", msg))]
    /\ UNCHANGED <<request, response, fs, fsChanges, LLAMA_SERVER_URL>>

----------------------------------------------------------------------------
(* The HTTP adapter chat_with_llama_server_http *)

\* What the first POST (/v1/chat/completions) can come back with: status 200
\* with a payload of one of four shapes, status 201 or 500 (with a
\* well-formed payload, which the code does not read), or an exception.
HttpChatOutcomes ==
    {"choices", "no_choices", "empty_choices", "no_message", "status_201", "status_500",
     "timeout", "request_exception"}

HttpAnswer == <<"answer from llama-server">>
CompletionAnswer == <<"answer from /completion">>
NoResponseGenerated == <<"No response generated.">>

UrlNotSet == Exc("Exception", <<"LLAMA_SERVER_URL environment variable not set">>)
HttpTimedOut(model) == Exc("Exception", <<"Llama-server request timed out for model ">> \o model)
HttpRequestFailed == Exc("Exception", <<"Llama-server request failed: ", "connection refused">>)
HttpInvalidFormat == Exc("Exception", <<"Invalid response format from llama-server">>)
HttpError(status) == Exc("Exception", <<"Llama-server HTTP error: ", status, " - ", "error text">>)

\* messages=[{'role': 'user', 'content': content}] (lines 51 and 133), written
\* as the roles and contents of its elements in order.
Messages(content) == <<<<"user">>, content>>

PostChat(url, content) ==
    Call("requests.post", <<url.v \o <<"/v1/chat/completions">>>> \o Messages(content))
PostCompletion(url) == Call("requests.post", <<url.v \o <<"/completion">>>>)

\* The response object requests.post returned: its status_code and the shape
\* of its JSON payload.
Response(status, payload) ==
    [fn |-> "requests.post", ev |-> "return", args |-> <<<<status>>, <<payload>>>>]

\* Lines 41-65: the URL check and the POST to /v1/chat/completions.
HttpPostChat(r) ==
    /\ pc[r] = "chat_with_llama_server_http"
    /\ LET loc == local[r]
           fn == "chat_with_llama_server_http"
           enter == Call(fn, <<loc.model, loc.content.v>>)
       IN  IF ~Truthy(LLAMA_SERVER_URL)
           THEN /\ Log(r, <<enter, Raises(fn, UrlNotSet)>>)
                /\ BackendRaises(r, loc, fn, UrlNotSet)
           ELSE \E o \in HttpChatOutcomes :
                LET post == PostChat(LLAMA_SERVER_URL, loc.content.v)
                    ok == Response("200", o)
                    fail(exc) == /\ Log(r, <<enter, post, Raises(fn, exc)>>)
                                 /\ BackendRaises(r, loc, fn, exc)
                    reject(exc) == /\ Log(r, <<enter, post, ok, Raises(fn, exc)>>)
                                   /\ BackendRaises(r, loc, fn, exc)
                IN  CASE o = "choices" ->
                            /\ Log(r, <<enter, post, ok, Returns(fn, HttpAnswer)>>)
                            /\ BackendReturns(r, loc, HttpAnswer)
                      [] o \in {"no_choices", "empty_choices"} -> reject(HttpInvalidFormat)
                      [] o = "no_message" -> reject(Exc("KeyError", <<"'message'">>))
                      [] o \in {"status_201", "status_500"} ->
                            /\ Log(r, <<enter, post,
                                        Response(IF o = "status_201" THEN "201" ELSE "500",
                                                 "choices")>>)
                            /\ pc' = [pc EXCEPT ![r] = "http_completion"]
                            /\ local' = [local EXCEPT ![r].http_status =
                                            IF o = "status_201" THEN 201 ELSE 500]
                      [] o = "timeout" -> fail(HttpTimedOut(loc.model))
                      [] o = "request_exception" -> fail(HttpRequestFailed)
    /\ UNCHANGED <<request, response, fs, fsChanges, LLAMA_SERVER_URL>>

HttpCompletionOutcomes == {"content", "no_content", "status_500", "timeout", "request_exception"}

\* Lines 66-86: after a non-200 status, the POST to /completion.
HttpPostCompletion(r) ==
    /\ pc[r] = "http_completion"
    /\ \E o \in HttpCompletionOutcomes :
        LET loc == local[r]
            fn == "chat_with_llama_server_http"
            post == PostCompletion(LLAMA_SERVER_URL)
            fail(exc) == /\ Log(r, <<post, Raises(fn, exc)>>)
                         /\ BackendRaises(r, loc, fn, exc)
            return(v) == /\ Log(r, <<post, Returns(fn, v)>>)
                         /\ BackendReturns(r, loc, v)
        IN  CASE o = "content" -> return(CompletionAnswer)
              [] o = "no_content" -> return(NoResponseGenerated)
              [] o = "status_500" -> fail(HttpError("500"))
              [] o = "timeout" -> fail(HttpTimedOut(loc.model))
              [] o = "request_exception" -> fail(HttpRequestFailed)
    /\ UNCHANGED <<request, response, fs, fsChanges, LLAMA_SERVER_URL>>

----------------------------------------------------------------------------
(* The managed adapter chat_with_ollama *)

OllamaAnswer == <<"answer from ollama">>
OllamaErrors ==
    {Exc("ResponseError", <<"model not found">>),
     Exc("ConnectionError", <<"Ollama service is not running">>)}

\* Lines 129-136: one ollama.chat call; whatever it raises propagates.
ChatWithOllama(r) ==
    /\ pc[r] = "chat_with_ollama"
    /\ LET loc == local[r]
           fn == "chat_with_ollama"
           enter == Call(fn, <<loc.model, loc.content.v>>)
           chat == Call("ollama.chat", <<loc.model>> \o Messages(loc.content.v))
       IN  \/ /\ Log(r, <<enter, chat, Returns(fn, OllamaAnswer)>>)
              /\ BackendReturns(r, loc, OllamaAnswer)
           \/ \E exc \in OllamaErrors :
                /\ Log(r, <<enter, chat, Raises(fn, exc)>>)
                /\ BackendRaises(r, loc, fn, exc)
    /\ UNCHANGED <<request, response, fs, fsChanges, LLAMA_SERVER_URL>>

----------------------------------------------------------------------------
(* The process adapter chat_with_llamacpp *)

LLAMA_CPP_CLI == <<"/data1/llama.cpp/bin/llama-cli">>

\* LLAMA_CPP_SKIP_PATTERNS, each pattern one token.
LLAMA_CPP_SKIP_PATTERNS ==
    {"ggml_cuda_init:", "warning:", "build:", "main:", "llama_model_loader:",
     "print_info:", "load:", "load_tensors:", "llama_context:",
     "common_init_from_params:", "system_info:", "sampler", "generate:"}

InvalidByte == "\\xff"
ReplacementChar == "\\ufffd"

\* bytes.decode('utf-8'), falling back to errors='replace' (lines 166-169).
Decode(bytes) == [i \in 1..Len(bytes) |-> IF bytes[i] = InvalidByte THEN ReplacementChar ELSE bytes[i]]

\* str.split('\n')
RECURSIVE SplitLines(_)
SplitLines(s) ==
    IF \A i \in 1..Len(s) : s[i] # "\n" THEN <<s>>
    ELSE LET i == CHOOSE i \in 1..Len(s) : s[i] = "\n" /\ \A j \in 1..(i - 1) : s[j] # "\n"
         IN  <<SubSeq(s, 1, i - 1)>> \o SplitLines(SubSeq(s, i + 1, Len(s)))

\* any(skip_pattern in line for skip_pattern in LLAMA_CPP_SKIP_PATTERNS)
HasSkipPattern(line) == \E i \in 1..Len(line) : line[i] \in LLAMA_CPP_SKIP_PATTERNS

\* The loop of lines 172-181 over the lines from index i on.
RECURSIVE ResponseLines(_, _)
ResponseLines(lines, i) ==
    IF i > Len(lines) THEN << >>
    ELSE LET line == lines[i]
         IN  IF HasSkipPattern(line) THEN ResponseLines(lines, i + 1)
             ELSE IF line # << >> /\ Head(line) = "llama_perf_" THEN << >>
             ELSE IF Strip(line) # << >> THEN <<Strip(line)>> \o ResponseLines(lines, i + 1)
             ELSE ResponseLines(lines, i + 1)

\* ' '.join(lines)
RECURSIVE JoinSpace(_)
JoinSpace(lines) ==
    IF lines = << >> THEN << >>
    ELSE IF Len(lines) = 1 THEN lines[1]
    ELSE lines[1] \o <<" ">> \o JoinSpace(Tail(lines))

\* The joined lines returned as they are, empty or not.
ParseOutput_NoPlaceholder(stdout) ==
    JoinSpace(ResponseLines(SplitLines(Strip(Decode(stdout))), 1))

\* Lines 166-184: from the subprocess's stdout bytes to the answer.
ParseOutput(stdout) ==
    LET stdout_text == Decode(stdout)
        output_lines == SplitLines(Strip(stdout_text))
        response_lines == ResponseLines(output_lines, 1)
        resp == JoinSpace(response_lines)
    IN  IF resp # << >> THEN resp ELSE NoResponseGenerated

Stdouts ==
    {<<"I can help.">>,
     <<" ", "line one", "\n", "line two", "\n">>,
     <<"main:", " ", "loading", "\n", "answer", "\n", "llama_perf_", "stats">>,
     <<" ", "\n">>,
     << >>,
     <<"caf", InvalidByte>>}

Stderrs == {<< >>, <<"CUDA out of memory", "\n">>}

Command(model_path, content) ==
    <<LLAMA_CPP_CLI, <<"-m">>, model_path, <<"--n-gpu-layers">>, <<"40">>, <<"-p">>, content,
      <<"-n">>, <<"512">>, <<"--no-display-prompt">>, <<"-no-cnv">>>>

\* A failure text carrying the standard error bytes as they came.
LlamacppFailed_RawStderr(model, stderr) ==
    Exc("Exception", <<"Llama.cpp failed for ">> \o model \o <<": ">> \o stderr)

\* Lines 188-195: CalledProcessError becomes an Exception carrying the
\* decoded, stripped standard error.
LlamacppFailed(model, stderr) ==
    LET stderr_text == IF stderr # << >> THEN Decode(stderr) ELSE << >>
    IN  Exc("Exception", <<"Llama.cpp failed for ">> \o model \o <<": ">>
            \o (IF stderr_text # << >> THEN Strip(stderr_text) ELSE <<"Unknown error">>))

\* Lines 140-142: the adapter resolves the model again.
LlamacppResolve(r) ==
    /\ pc[r] = "chat_with_llamacpp"
    /\ LET loc == local[r]
           model_path == resolve_model_path(fs, loc.model)
       IN  /\ Log(r, <<Call("chat_with_llamacpp", <<loc.model, loc.content.v>>),
                       Call("resolve_model_path", <<loc.model>>)>>)
           /\ pc' = [pc EXCEPT ![r] = IF Truthy(model_path) THEN "subprocess_run"
                                       ELSE "llamacpp_not_found"]
           /\ local' = [local EXCEPT ![r].model_path = model_path]
    /\ UNCHANGED <<request, response, fs, fsChanges, LLAMA_SERVER_URL>>

\* Lines 143-144: no artifact; list what there is and raise ValueError.
LlamacppNotFound(r) ==
    /\ pc[r] = "llamacpp_not_found"
    /\ LET loc == local[r]
           fn == "chat_with_llamacpp"
           available_models == get_available_llamacpp_models(fs)
           exc == Exc("ValueError", <<"Model not found: ">> \o loc.model
                        \o <<". Available models: ">> \o ListText(available_models))
       IN  /\ Log(r, <<Call("get_available_llamacpp_models", << >>), Raises(fn, exc)>>)
           /\ BackendRaises(r, loc, fn, exc)
    /\ UNCHANGED <<request, response, fs, fsChanges, LLAMA_SERVER_URL>>

\* Lines 146-197: run llama-cli and turn its outcome into an answer or an exception.
SubprocessRun(r) ==
    /\ pc[r] = "subprocess_run"
    /\ LET loc == local[r]
           fn == "chat_with_llamacpp"
           run == Call("subprocess.run", Command(loc.model_path.v, loc.content.v))
           fail(exc) == /\ Log(r, <<run, Raises(fn, exc)>>)
                        /\ BackendRaises(r, loc, fn, exc)
       IN  \/ \E stdout \in Stdouts :
                /\ Log(r, <<run, Returns("subprocess.run", stdout),
                                Returns(fn, ParseOutput(stdout))>>)
                /\ BackendReturns(r, loc, ParseOutput(stdout))
           \/ fail(Exc("Exception", <<"Llama.cpp request timed out for model ">> \o loc.model))
           \/ \E stderr \in Stderrs : fail(LlamacppFailed(loc.model, stderr))
           \/ fail(Exc("Exception", <<"Llama.cpp CLI not found">>))
    /\ UNCHANGED <<request, response, fs, fsChanges, LLAMA_SERVER_URL>>

----------------------------------------------------------------------------
(* The environment and the specification *)

\* Something outside the server changes the model directories.
FsChange ==
    /\ fsChanges < MaxFsChanges
    /\ \E r \in Reqs : pc[r] # "done"
    /\ \E f \in FsStates \ {fs} : fs' = f
    /\ fsChanges' = fsChanges + 1
    /\ UNCHANGED <<request, pc, local, calls, response, LLAMA_SERVER_URL>>

Next ==
    \/ \E r \in Reqs : AuthenticateKey(r)
    \/ \E r \in Reqs : RedisGet(r)
    \/ \E r \in Reqs : Chat(r)
    \/ \E r \in Reqs : ChatWithModel(r)
    \/ \E r \in Reqs : IsLlamacppAvailable(r)
    \/ \E r \in Reqs : HttpPostChat(r)
    \/ \E r \in Reqs : HttpPostCompletion(r)
    \/ \E r \in Reqs : LlamacppResolve(r)
    \/ \E r \in Reqs : LlamacppNotFound(r)
    \/ \E r \in Reqs : SubprocessRun(r)
    \/ \E r \in Reqs : ChatWithOllama(r)
    \/ \E r \in Reqs : RouterWrap(r)
    \/ \E r \in Reqs : ChatResult(r)
    \/ \E r \in Reqs : InternalError(r)
    \/ FsChange

Spec == Init /\ [][Next]_vars

\* A step of a thread serving a request.
Serve ==
    \E r \in Reqs :
        \/ AuthenticateKey(r) \/ RedisGet(r) \/ Chat(r) \/ ChatWithModel(r)
        \/ IsLlamacppAvailable(r) \/ HttpPostChat(r) \/ HttpPostCompletion(r)
        \/ LlamacppResolve(r) \/ LlamacppNotFound(r) \/ SubprocessRun(r)
        \/ ChatWithOllama(r) \/ RouterWrap(r) \/ ChatResult(r) \/ InternalError(r)

\* The serving thread keeps running, and every credential lookup and backend
\* call it makes eventually returns or fails.
SpecFair == Init /\ [][Next]_vars /\ WF_vars(Serve)

\* The listing and the resolution called on their own, as the unit tests call
\* them, over every arrangement of the model directories.
FileB == <<"b", ".gguf">>
FileNamedIQ2 == DirIQ2 \o <<".gguf">>

DirEntries ==
    {DirMissing, DirUnreadable, DirOf(<<FileReadme>>), DirOf(<<FileOut>>),
     DirOf(<<FileOut, FileB>>), DirOf(<<FileB, FileReadme, FileOut>>),
     DirOf(<<FileNamedIQ2, FileOut>>)}

\* The longest directory listing among DirEntries.
MaxListingLen == 3

FsSpace == [{DirV25, DirIQ2, DirQ2K} -> DirEntries]

ResolveIds ==
    {DirV25, DirIQ2, DirQ2K, FileOut, FileB, FileNamedIQ2, FileReadme,
     <<"outfile">>, <<"b">>, <<"README">>, <<"nonexistent-model">>}
    \cup {d \o <<"/">> \o f : d \in {DirV25, DirIQ2, DirQ2K},
                              f \in {FileOut, FileB, FileNamedIQ2, FileReadme}}

InitResolve ==
    /\ request = [r \in {1} |-> [headers |-> << >>, json |-> << >>]]
    /\ pc = [r \in {1} |-> "list_models"]
    /\ local = [r \in {1} |-> LocalInit]
    /\ calls = [r \in {1} |-> << >>]
    /\ response = [r \in {1} |-> NoResponse]
    /\ fs \in FsSpace
    /\ fsChanges = 0
    /\ LLAMA_SERVER_URL = PyNone

\* get_available_llamacpp_models(), lines 88-101.
ListModels(r) ==
    /\ pc[r] = "list_models"
    /\ LET fn == "get_available_llamacpp_models"
       IN  Log(r, <<Call(fn, << >>), Returns(fn, get_available_llamacpp_models(fs))>>)
    /\ pc' = [pc EXCEPT ![r] = "resolve_model"]
    /\ UNCHANGED <<request, local, response, fs, fsChanges, LLAMA_SERVER_URL>>

\* resolve_model_path(model), lines 103-123, for an identifier of the caller.
ResolveModel(r) ==
    /\ pc[r] = "resolve_model"
    /\ \E model \in ResolveIds :
        /\ Log(r, <<Call("resolve_model_path", <<model>>)>>)
        /\ local' = [local EXCEPT ![r].model = model,
                                  ![r].model_path = resolve_model_path(fs, model)]
    /\ pc' = [pc EXCEPT ![r] = "done"]
    /\ UNCHANGED <<request, response, fs, fsChanges, LLAMA_SERVER_URL>>

NextResolve ==
    \/ \E r \in Reqs : ListModels(r)
    \/ \E r \in Reqs : ResolveModel(r)

SpecResolve == InitResolve /\ [][NextResolve]_vars

\* Two requests served at the same time (one thread each), both with a
\* valid key and a prompt for the same model, each in either mode.
ConcurrentRequests ==
    {[headers |-> [h \in {"X-API-KEY"} |-> PyStr(<<"key-alice">>)],
      json |-> [model |-> PyStr(DirIQ2), content |-> PyStr(<<"hi">>), llama_mode |-> PyStr(l)]] :
        l \in {ModeCli, ModeServer}}

\* The first request asks for cli mode, the second for either mode.
InitConcurrent ==
    /\ InitFor({1, 2}, ConcurrentRequests)
    /\ request[1].json["llama_mode"].v = ModeCli

SpecConcurrent == InitConcurrent /\ [][Next]_vars

----------------------------------------------------------------------------
(* Reading the call log *)

Adapters == {"chat_with_llama_server_http", "chat_with_llamacpp", "chat_with_ollama"}

Entries(r, fn, ev) == {i \in DOMAIN calls[r] : calls[r][i].fn = fn /\ calls[r][i].ev = ev}

\* How often fn was called while serving r.
Count(r, fn) == Cardinality(Entries(r, fn, "call"))

Invoked(r, fn) == Entries(r, fn, "call") # {}

\* The backend adapters attempted so far, and those that have raised.
Attempted(r) == {b \in Adapters : Invoked(r, b)}
Failed(r) == {b \in Adapters : Entries(r, b, "raise") # {}}

\* The text of the exception adapter b raised / the value it returned.
RaisedText(r, b) == calls[r][CHOOSE i \in Entries(r, b, "raise") : TRUE].args[1]
ReturnedValue(r, b) == calls[r][CHOOSE i \in Entries(r, b, "return") : TRUE].args[1]

\* The adapter whose call is the latest in the log.
LastAttempted(r) ==
    CHOOSE b \in Attempted(r) :
        \A c \in Attempted(r) : \A i \in Entries(r, b, "call"), j \in Entries(r, c, "call") :
            c = b \/ j < i

\* part occurs in msg (as consecutive tokens).
Contains(msg, part) ==
    \E i \in 0..(Len(msg) - Len(part)) : SubSeq(msg, i + 1, i + Len(part)) = part

RouterEntered(r) == Invoked(r, "chat_with_model")
RouterDone(r) == local[r].result.kind # "none"
RouterFailed(r) == local[r].result.kind = "raise"
\* The router has made its availability check (local[r].available is its result).
AvailabilityChecked(r) == Invoked(r, "resolve_model_path")
Finished(r) == pc[r] = "done"

----------------------------------------------------------------------------
(* Claims about the router *)

\* C1: for a model with a local artifact and mode = cli, the router invokes
\* only chat_with_llamacpp (once); it never invokes chat_with_ollama or the
\* HTTP adapter, and when chat_with_llamacpp fails the router fails with
\* exactly that failure.
C1_CliLocalOnlyProcessAdapter ==
    \A r \in Reqs :
        (AvailabilityChecked(r) /\ local[r].llama_mode = ModeCli /\ local[r].available) =>
            /\ Attempted(r) \subseteq {"chat_with_llamacpp"}
            /\ Count(r, "chat_with_llamacpp") <= 1
            /\ "chat_with_llamacpp" \in Failed(r) =>
                    /\ RouterFailed(r)
                    /\ local[r].result.exc.msg = RaisedText(r, "chat_with_llamacpp")

\* C2: for a model with a local artifact, mode = server and a configured
\* URL, the router invokes only chat_with_llama_server_http; when it fails the
\* router fails with exactly that failure, and neither chat_with_llamacpp
\* nor chat_with_ollama is invoked.
C2_ServerLocalOnlyHttpAdapter ==
    \A r \in Reqs :
        (AvailabilityChecked(r) /\ local[r].llama_mode = ModeServer /\ local[r].available
            /\ Truthy(LLAMA_SERVER_URL)) =>
            /\ Attempted(r) \subseteq {"chat_with_llama_server_http"}
            /\ Count(r, "chat_with_llama_server_http") <= 1
            /\ "chat_with_llama_server_http" \in Failed(r) =>
                    /\ RouterFailed(r)
                    /\ local[r].result.exc.msg = RaisedText(r, "chat_with_llama_server_http")

\* C3: for a model with no local artifact, mode cli or server and the URL
\* set or unset, one router call invokes chat_with_ollama exactly once and
\* no other backend adapter.
C3_NotLocalOnlyManagedAdapter ==
    \A r \in Reqs :
        (RouterEntered(r) /\ local[r].llama_mode \in {ModeCli, ModeServer}
            /\ fsChanges = 0 /\ ~is_llamacpp_available(fs, local[r].model)) =>
            /\ Attempted(r) \subseteq {"chat_with_ollama"}
            /\ RouterDone(r) => Count(r, "chat_with_ollama") = 1

ConfigErrorText == <<"LLAMA_SERVER_URL environment variable not set">>

\* C4: for a model with a local artifact, mode = server and no URL
\* configured, the router fails with the configuration error
\* (LLAMA_SERVER_URL not set) and invokes no backend adapter.
C4_ServerModeRequiresUrl ==
    \A r \in Reqs :
        (RouterEntered(r) /\ local[r].llama_mode = ModeServer /\ ~Truthy(LLAMA_SERVER_URL)
            /\ is_llamacpp_available(fs, local[r].model)) =>
            /\ RouterFailed(r)
            /\ Contains(local[r].result.exc.msg, ConfigErrorText)
            /\ Attempted(r) = {}

C4_Witness ==
    \E r \in Reqs :
        /\ Finished(r) /\ RouterFailed(r) /\ local[r].llama_mode = ModeServer
        /\ ~Truthy(LLAMA_SERVER_URL) /\ is_llamacpp_available(fs, local[r].model)
        /\ fsChanges = 0

\* C5: for a mode outside {cli, server} the router fails with an
\* InvalidMode error ("Invalid llama_mode: ...") and invokes no backend
\* adapter, with or without a local artifact.
C5_InvalidModeRejected ==
    \A r \in Reqs :
        (RouterEntered(r) /\ local[r].llama_mode \notin {ModeCli, ModeServer}) =>
            /\ Attempted(r) = {}
            /\ RouterFailed(r)
            /\ Contains(local[r].result.exc.msg, <<"Invalid llama_mode: ">>)

\* C6: during one router call each of the three backend adapters is
\* invoked at most once, whatever the mode, the availability and the
\* failures of the backends.
C6_NoBackendRetried ==
    \A r \in Reqs : \A b \in Adapters : Count(r, b) <= 1

C6_Witness ==
    \E r \in Reqs : RouterDone(r) /\ Attempted(r) = Adapters /\ Failed(r) = Adapters

\* C7: the router fails only when every backend it attempted has failed,
\* or the mode is neither cli nor server, or server mode is requested with
\* no URL; and whenever the last backend attempted succeeds the router
\* returns that backend's answer unchanged.
C7_RouterFailsOnlyWhen ==
    \A r \in Reqs :
        RouterDone(r) =>
            /\ RouterFailed(r) =>
                \/ local[r].llama_mode \notin {ModeCli, ModeServer}
                \/ local[r].llama_mode = ModeServer /\ ~Truthy(LLAMA_SERVER_URL)
                \/ Attempted(r) # {} /\ Failed(r) = Attempted(r)
            /\ (Attempted(r) # {} /\ LastAttempted(r) \notin Failed(r)) =>
                local[r].result = Returned(ReturnedValue(r, LastAttempted(r)))

C7_Witness ==
    \E r \in Reqs :
        /\ RouterDone(r) /\ ~RouterFailed(r)
        /\ Attempted(r) = Adapters /\ LastAttempted(r) = "chat_with_ollama"
        /\ local[r].result = Returned(OllamaAnswer)

\* C8: when the router fails because every attempted backend failed, the
\* failure it reports carries the cause of each backend attempted in that
\* call.
C8_FailureAggregatesCauses ==
    \A r \in Reqs :
        (RouterFailed(r) /\ Attempted(r) # {} /\ Failed(r) = Attempted(r)) =>
            \A b \in Attempted(r) : Contains(local[r].result.exc.msg, RaisedText(r, b))

----------------------------------------------------------------------------
(* Claims about the endpoint *)

\* The request's content is missing (no "content" key) or a string that is
\* blank after trimming whitespace.
ContentMissingOrBlank(r) ==
    LET json == request[r].json
    IN  \/ "content" \notin DOMAIN json
        \/ json["content"].t = "str" /\ Strip(json["content"].v) = << >>

ContentNull(r) ==
    LET json == request[r].json
    IN  "content" \in DOMAIN json /\ json["content"].t = "None"

\* The response is the error object and its message contains text.
RejectedWith(r, text) ==
    /\ response[r].status # 200
    /\ response[r].body.json = "object"
    /\ Contains(response[r].body.error, text)

\* authenticate() has returned a user for r.
Authenticated(r) == local[r].user # PyNone

\* C9 as stated: every /chat request whose content is missing or blank is
\* rejected with a message containing "Missing prompt content", the router
\* is never called for it and no backend adapter is contacted.
C9_BlankContentRejected ==
    \A r \in Reqs :
        ContentMissingOrBlank(r) =>
            /\ ~RouterEntered(r)
            /\ Attempted(r) = {}
            /\ Finished(r) => RejectedWith(r, <<"Missing prompt content">>)

\* C9, amended: a /chat request that has passed authentication and whose
\* content is missing or blank is rejected with a message containing
\* "Missing prompt content"; for every request whose content is missing,
\* null or blank the router is never called and no backend adapter is
\* contacted.
C9_BlankContentRejectedAfterAuth ==
    \A r \in Reqs :
        /\ (ContentMissingOrBlank(r) \/ ContentNull(r)) =>
                ~RouterEntered(r) /\ Attempted(r) = {}
        /\ (ContentMissingOrBlank(r) /\ Authenticated(r) /\ Finished(r)) =>
                RejectedWith(r, <<"Missing prompt content">>)

C9_Witness ==
    \E r \in Reqs :
        /\ Finished(r) /\ Authenticated(r)
        /\ "content" \in DOMAIN request[r].json
        /\ request[r].json["content"] = PyStr(<<" ", "\n">>)
        /\ RejectedWith(r, <<"Missing prompt content">>)
        /\ calls[r] = <<Call("REDIS_CONNECTION.get", <<<<"api-key:", "key-alice">>>>)>>

\* The X-API-KEY header is absent or empty, or the key has no entry in the
\* credential store.
BadKey(r) ==
    LET headers == request[r].headers
    IN  \/ "X-API-KEY" \notin DOMAIN headers
        \/ headers["X-API-KEY"].v = << >>
        \/ headers["X-API-KEY"].v \notin DOMAIN REDIS_CONNECTION

\* C10: for a request whose key is absent, empty or not in the credential
\* store the router is never called and no backend adapter is contacted;
\* the request ends in an error response after at most one credential
\* lookup (none when the key is absent or empty).
C10_AuthenticationGate ==
    \A r \in Reqs :
        BadKey(r) =>
            /\ ~RouterEntered(r)
            /\ Attempted(r) = {}
            /\ ~Authenticated(r)
            /\ pc[r] \in {"authenticate", "redis_get", "internal_error", "done"}
            /\ Count(r, "REDIS_CONNECTION.get") <= 1
            /\ KeyMissing(Get(request[r].headers, "X-API-KEY", PyNone)) =>
                    Count(r, "REDIS_CONNECTION.get") = 0
            /\ Finished(r) => response[r].status # 200 /\ response[r].body.json = "object"

C10_Witness ==
    \E r \in Reqs :
        /\ Finished(r)
        /\ request[r].headers = [h \in {"X-API-KEY"} |-> PyStr(<<"key-unknown">>)]
        /\ Count(r, "REDIS_CONNECTION.get") = 1
        /\ RejectedWith(r, <<"Invalid API key">>)
        /\ ~ContentMissingOrBlank(r)

\* The request failed: it is finished and was not answered with 200.
RequestFailed(r) == Finished(r) /\ response[r].status # 200

KeyAbsent(r) == "X-API-KEY" \notin DOMAIN request[r].headers

KeyNotInStore(r) ==
    /\ ~KeyAbsent(r)
    /\ request[r].headers["X-API-KEY"].v # << >>
    /\ request[r].headers["X-API-KEY"].v \notin DOMAIN REDIS_CONNECTION

\* The credential store answered the lookup (it did not raise).
StoreAnswered(r) ==
    Count(r, "REDIS_CONNECTION.get") = 1 /\ local[r].exc.exc.type # "ConnectionError"

\* C11: every failing /chat request is answered with a JSON object of the
\* single shape {"error": <message>}; for an authentication failure the
\* status is 500 and the message is "401 Unauthorized: Missing API key" for
\* an absent key and "401 Unauthorized: Invalid API key" for a key that is
\* not in the store.
C11_FailuresAreErrorObjects ==
    \A r \in Reqs :
        RequestFailed(r) =>
            /\ response[r].body.json = "object"
            /\ DOMAIN response[r].body = {"json", "error"}
            /\ response[r].body.error = local[r].exc.exc.msg
            /\ KeyAbsent(r) =>
                    /\ response[r].status = 500
                    /\ response[r].body.error = <<"401 Unauthorized", ": ", "Missing API key">>
            /\ (KeyNotInStore(r) /\ StoreAnswered(r)) =>
                    /\ response[r].status = 500
                    /\ response[r].body.error = <<"401 Unauthorized", ": ", "Invalid API key">>

C11_Witness ==
    \E r \in Reqs :
        /\ RequestFailed(r) /\ KeyNotInStore(r) /\ StoreAnswered(r)
        /\ response[r] = [status |-> 500,
                          body |-> [json |-> "object",
                                    error |-> <<"401 Unauthorized", ": ", "Invalid API key">>]]

\* The router returned an answer for r (it did not raise).
RouterAnswered(r) == local[r].result.kind = "return"

\* C12: a /chat request is answered with status 200 if and only if
\* authentication succeeded, the content is non-blank and the router
\* returned an answer; the body of the 200 response is exactly that answer
\* as a bare JSON string, not an object.
C12_OkIffAnswered ==
    \A r \in Reqs :
        Finished(r) =>
            /\ response[r].status = 200 <=>
                    /\ Authenticated(r)
                    /\ ~ContentMissingOrBlank(r) /\ ~ContentNull(r)
                    /\ RouterAnswered(r)
            /\ response[r].status = 200 =>
                    /\ DOMAIN response[r].body = {"json", "v"}
                    /\ response[r].body.json = "string"
                    /\ response[r].body.v = local[r].result.value

C12_Witness ==
    \E r \in Reqs :
        /\ Finished(r) /\ Authenticated(r) /\ RouterAnswered(r)
        /\ "content" \in DOMAIN request[r].json
        /\ request[r].json["content"] = PyStr(<<" ", "hi", " ">>)
        /\ Entries(r, "chat_with_llamacpp", "return") # {}
        /\ ReturnedValue(r, "chat_with_llamacpp") = <<"line one", " ", "line two">>
        /\ response[r] = [status |-> 200,
                          body |-> [json |-> "string", v |-> <<"line one", " ", "line two">>]]

----------------------------------------------------------------------------
(* Claims about the system prompt *)

\* The system prompt of the request (None when the request has none).
SystemPromptOf(r) == Get(request[r].json, "system_prompt", PyNone)

\* The messages list the claim expects for a system prompt and a content.
ExpectedMessages(system_prompt, content) ==
    IF system_prompt.t = "str"
    THEN <<<<"system">>, system_prompt.v, <<"user">>, content>>
    ELSE <<<<"user">>, content>>

IsChatCompletionsPost(args) == args[1][Len(args[1])] = "/v1/chat/completions"

\* C13: each of the three backend adapters forwards the system prompt: the
\* HTTP and managed adapters send a messages list whose first element has
\* role "system" and the system prompt as content, followed by the user
\* message; the process adapter passes it after a "--system-prompt" flag;
\* with no system prompt the messages list holds only the user message.
C13_SystemPromptForwarded ==
    \A r \in Reqs :
        LET system_prompt == SystemPromptOf(r)
            expected == ExpectedMessages(system_prompt, local[r].content.v)
        IN  /\ \A i \in Entries(r, "ollama.chat", "call") :
                    calls[r][i].args = <<local[r].model>> \o expected
            /\ \A i \in Entries(r, "requests.post", "call") :
                    IsChatCompletionsPost(calls[r][i].args) =>
                        Tail(calls[r][i].args) = expected
            /\ \A i \in Entries(r, "subprocess.run", "call") :
                    system_prompt.t = "str" =>
                        \E k \in 1..(Len(calls[r][i].args) - 1) :
                            /\ calls[r][i].args[k] = <<"--system-prompt">>
                            /\ calls[r][i].args[k + 1] = system_prompt.v

----------------------------------------------------------------------------
(* Claims about the request's defaults *)

\* The router call the endpoint made for r (the first one in the log).
RouterCall(r) ==
    calls[r][CHOOSE i \in Entries(r, "chat_with_model", "call") :
                \A j \in Entries(r, "chat_with_model", "call") : i <= j]

\* The calls of r to the backend adapters.
AdapterCalls(r) == {i \in DOMAIN calls[r] : calls[r][i].fn \in Adapters /\ calls[r][i].ev = "call"}

\* C14: a request that omits llama_mode is routed exactly like the same
\* request with llama_mode = "cli" (the router is called with mode "cli", so
\* the same backends are attempted), and a request that omits model is
\* routed with the configured default model.
C14_DefaultsModeCliAndModel ==
    \A r \in Reqs :
        RouterEntered(r) =>
            /\ "llama_mode" \notin DOMAIN request[r].json =>
                    /\ RouterCall(r).args[3] = ModeCli
                    /\ RouterCall(r) =
                            Call("chat_with_model", <<local[r].model, local[r].content.v, ModeCli>>)
                    /\ local[r].mode = ModeCli
                    /\ "chat_with_llama_server_http" \notin Attempted(r)
            /\ "model" \notin DOMAIN request[r].json =>
                    /\ RouterCall(r).args[1] = DEFAULT_MODEL
                    /\ \A i \in AdapterCalls(r) : calls[r][i].args[1] = DEFAULT_MODEL

C14_Witness ==
    \E r \in Reqs :
        /\ DOMAIN request[r].json = {"content"}
        /\ Finished(r) /\ RouterAnswered(r)
        /\ RouterCall(r) = Call("chat_with_model", <<DEFAULT_MODEL, <<"hi">>, ModeCli>>)
        /\ Attempted(r) = {"chat_with_ollama"}

----------------------------------------------------------------------------
(* The system prompt through the layers *)

\* An optional argument as it is passed on: the text, or None.
Passed(x) == IF x.t = "str" THEN x.v ELSE <<"None">>

\* C20: the optional system prompt is passed unchanged through every
\* layer: the endpoint calls the router with (model, content, llama_mode,
\* system_prompt), with None when the request has none, and the router
\* passes the same system prompt to every backend adapter it invokes.
C20_SystemPromptPassedThrough ==
    \A r \in Reqs :
        /\ \A i \in Entries(r, "chat_with_model", "call") :
                /\ Len(calls[r][i].args) = 4
                /\ calls[r][i].args[4] = Passed(SystemPromptOf(r))
        /\ \A i \in AdapterCalls(r) :
                /\ Len(calls[r][i].args) = 3
                /\ calls[r][i].args[3] = Passed(SystemPromptOf(r))

----------------------------------------------------------------------------
(* Claims about model resolution *)

\* How often resolve_model_path has been called while serving r.
Resolutions(r) == Count(r, "resolve_model_path")

\* Both calls of resolve_model_path of one request (the router's
\* availability check and the process adapter's own) saw the same filesystem.
ResolvedTwiceUnchanged(r) == Resolutions(r) = 2 /\ fsChanges = 0

SubdirHasGguf(fsv, model) ==
    /\ model \in DOMAIN fsv
    /\ fsv[model].kind = "dir"
    /\ GgufFiles(fsv[model].files) # << >>

\* The router's availability check of r found the filesystem as it is now.
CheckedUnchanged(r) == AvailabilityChecked(r) /\ fsChanges = 0

\* C16: resolution follows <GGUF_DIR>/<model>/*.gguf: an identifier
\* resolves if and only if the subdirectory literally named by it contains a
\* .gguf file, and then to the first such file of that subdirectory.
C16_ResolvesSubdirGlob ==
    \A r \in Reqs :
        /\ CheckedUnchanged(r) =>
                local[r].available = SubdirHasGguf(fs, local[r].model)
        /\ ResolvedTwiceUnchanged(r) =>
                local[r].model_path =
                    IF SubdirHasGguf(fs, local[r].model)
                    THEN PyStr(GGUF_DIR \o <<"/">> \o local[r].model \o <<"/">>
                                \o Head(GgufFiles(fs[local[r].model].files)))
                    ELSE PyNone

\* The identifier has one of the four forms for a .gguf file of a known
\* model directory: the directory name, "<dir>/<file>", the filename, or the
\* filename without its extension.
HasKnownForm(fsv, model) ==
    \E i \in 1..Len(LLAMA_CPP_MODEL_DIRS) :
        LET dir == LLAMA_CPP_MODEL_DIRS[i]
        IN  /\ fsv[dir].kind = "dir"
            /\ \E j \in 1..Len(fsv[dir].files) :
                LET file == fsv[dir].files[j]
                IN  /\ file[Len(file)] = ".gguf"
                    /\ model \in {dir, dir \o <<"/">> \o file, file,
                                  SubSeq(file, 1, Len(file) - 1)}

\* C17: an identifier resolves to a local artifact when it equals a model
\* directory name, "<dir>/<file>", the filename or the filename without
\* extension of a .gguf file in a known model directory; an identifier of
\* none of these forms ("deepseek-coder-v2:latest", "nonexistent-model") is
\* not locally available.
C17_FourFormsResolve ==
    \A r \in Reqs :
        CheckedUnchanged(r) =>
            /\ local[r].available = HasKnownForm(fs, local[r].model)
            /\ local[r].model \in {<<"deepseek-coder-v2:latest">>, <<"nonexistent-model">>} =>
                    ~local[r].available

C17_Witness ==
    \E r \in Reqs :
        /\ CheckedUnchanged(r) /\ Finished(r)
        /\ local[r].model = DirIQ2 \o <<"/">> \o FileOut
        /\ local[r].available
        /\ "chat_with_llamacpp" \in Attempted(r) \ Failed(r)

----------------------------------------------------------------------------
(* Claims about concurrency *)

\* The artifact of r's model was there at the router's availability check
\* and gone when chat_with_llamacpp resolved it again.
ArtifactVanished(r) ==
    /\ local[r].llama_mode = ModeCli
    /\ local[r].available
    /\ "chat_with_llamacpp" \in Failed(r)
    /\ Contains(RaisedText(r, "chat_with_llamacpp"), <<"Model not found: ">> \o local[r].model)

\* C18: when the artifact exists at the router's availability check and has
\* disappeared when the process adapter resolves it again (mode cli), the
\* request ends in the failure "Model not found: <model>", which is what the
\* caller receives; no other backend is tried.
C18_RaceSurfacesModelNotFound ==
    \A r \in Reqs :
        ArtifactVanished(r) =>
            /\ Attempted(r) = {"chat_with_llamacpp"}
            /\ RouterFailed(r)
            /\ local[r].result.exc.msg = RaisedText(r, "chat_with_llamacpp")
            /\ Finished(r) =>
                    RejectedWith(r, <<"Model not found: ">> \o local[r].model)

\* Everything that belongs to request r alone.
Own(r) == <<request[r], pc[r], local[r], calls[r], response[r]>>

\* The router of r went past the configuration check of server mode.
Routed(r) ==
    RouterDone(r) /\ ~(local[r].llama_mode = ModeServer /\ ~Truthy(LLAMA_SERVER_URL))

\* C19: concurrent requests are independent.  Under every interleaving each
\* request makes its own resolution and its own backend invocations (no
\* coalescing), a step of one request leaves every other request's state
\* and the shared configuration and filesystem untouched, and two requests
\* with the same input, the same credential and backend outcomes and the
\* same filesystem get the same result however they were interleaved.
C19_ConcurrentRequestsIndependent ==
    /\ [](\A r \in Reqs : Routed(r) => Resolutions(r) >= 1 /\ Attempted(r) # {})
    /\ [](\A r, q \in Reqs :
            (/\ Finished(r) /\ Finished(q) /\ fsChanges = 0
             /\ request[r] = request[q] /\ calls[r] = calls[q]
             /\ local[r].user = local[q].user) => response[r] = response[q])
    /\ [][\A r \in Reqs :
            Own(r)' # Own(r) =>
                /\ \A q \in Reqs \ {r} : Own(q)' = Own(q)
                /\ fs' = fs /\ LLAMA_SERVER_URL' = LLAMA_SERVER_URL]_vars

\* Both requests ask for the same local model in cli mode; each has run
\* its own llama-cli, with different outcomes.
C19_Witness ==
    /\ Reqs = {1, 2}
    /\ request[1] = request[2]
    /\ Finished(1) /\ Finished(2)
    /\ Count(1, "subprocess.run") = 1 /\ Count(2, "subprocess.run") = 1
    /\ Resolutions(1) = 2 /\ Resolutions(2) = 2
    /\ response[1].status = 200 /\ response[2].status = 500

----------------------------------------------------------------------------
(* Claims about the process adapter *)

\* msg begins with part.
StartsWith(msg, part) == Len(msg) >= Len(part) /\ SubSeq(msg, 1, Len(part)) = part

\* chat_with_llamacpp was entered for r and found no artifact.
NotResolvedAtCall(r) == Invoked(r, "chat_with_llamacpp") /\ local[r].model_path = PyNone

\* The texts of the three failures of a started (or startable) subprocess.
SubprocessFailureTexts(model) ==
    {<<"Llama.cpp CLI not found">>,
     <<"Llama.cpp request timed out for model ">> \o model,
     <<"Llama.cpp failed for ">> \o model \o <<": ", "CUDA out of memory">>,
     <<"Llama.cpp failed for ">> \o model \o <<": ", "Unknown error">>}

TrimmedStdout(r) ==
    Strip(Decode(calls[r][CHOOSE i \in Entries(r, "subprocess.run", "return") : TRUE].args[1]))

SubprocessSucceeded(r) == Entries(r, "subprocess.run", "return") # {}

\* C22: when the subprocess exits successfully with non-empty output the
\* process adapter returns exactly the decoded standard output with the
\* surrounding whitespace trimmed; no line is dropped, reordered or
\* rejoined, whatever the text.
C22_ReturnsTrimmedStdout ==
    \A r \in Reqs :
        (SubprocessSucceeded(r) /\ TrimmedStdout(r) # << >>) =>
            ReturnedValue(r, "chat_with_llamacpp") = TrimmedStdout(r)

\* C23: when the subprocess exits successfully and the extracted answer is
\* empty (empty or whitespace-only output) the process adapter returns the
\* literal answer "No response generated." and does not fail; it never
\* returns an empty string.
C23_PlaceholderForEmptyAnswer ==
    \A r \in Reqs :
        /\ SubprocessSucceeded(r) =>
                /\ "chat_with_llamacpp" \notin Failed(r)
                /\ Entries(r, "chat_with_llamacpp", "return") # {}
                /\ TrimmedStdout(r) = << >> =>
                        ReturnedValue(r, "chat_with_llamacpp") = <<"No response generated.">>
        /\ \A i \in Entries(r, "chat_with_llamacpp", "return") :
                /\ calls[r][i].args[1] # << >>
                /\ Strip(calls[r][i].args[1]) # << >>

C23_Witness ==
    \E r \in Reqs :
        /\ SubprocessSucceeded(r) /\ Finished(r)
        /\ TrimmedStdout(r) = << >>
        /\ ReturnedValue(r, "chat_with_llamacpp") = <<"No response generated.">>
        /\ response[r] = [status |-> 200,
                          body |-> [json |-> "string", v |-> <<"No response generated.">>]]

----------------------------------------------------------------------------
(* Claims about the HTTP adapter *)

HttpAdapter == "chat_with_llama_server_http"

\* The HTTP adapter was entered for r and has returned or raised.
HttpAdapterDone(r) ==
    Entries(r, HttpAdapter, "return") # {} \/ Entries(r, HttpAdapter, "raise") # {}

\* C24: one invocation of the HTTP adapter issues exactly one POST, to the
\* chat-completions endpoint, when the base URL is configured, whatever
\* status the server answers; with the URL unset it issues no request and
\* fails with "LLAMA_SERVER_URL environment variable not set".
C24_ExactlyOnePost ==
    \A r \in Reqs :
        Invoked(r, HttpAdapter) =>
            IF Truthy(LLAMA_SERVER_URL)
            THEN /\ Count(r, "requests.post") <= 1
                 /\ HttpAdapterDone(r) => Count(r, "requests.post") = 1
                 /\ \A i \in Entries(r, "requests.post", "call") :
                        IsChatCompletionsPost(calls[r][i].args)
            ELSE /\ Count(r, "requests.post") = 0
                 /\ RaisedText(r, HttpAdapter) = <<"LLAMA_SERVER_URL environment variable not set">>

\* The server has answered r's chat-completions request.
ChatAnswered(r) == Entries(r, "requests.post", "return") # {}

\* The status and the payload shape of that answer.
ChatResponse(r) ==
    LET e == calls[r][CHOOSE i \in Entries(r, "requests.post", "return") : TRUE]
    IN  [status |-> e.args[1][1], payload |-> e.args[2][1]]

SuccessStatuses == {"200", "201"}

\* C25: whenever the server answers the chat-completions request with a
\* non-2xx status the HTTP adapter fails with "Llama-server HTTP error ..."
\* and returns no answer; whenever it answers with a 2xx status and a
\* well-formed payload the adapter returns choices[0].message.content.
C25_StatusDecides ==
    \A r \in Reqs :
        (ChatAnswered(r) /\ HttpAdapterDone(r)) =>
            /\ ChatResponse(r).status \notin SuccessStatuses =>
                    /\ Entries(r, HttpAdapter, "return") = {}
                    /\ StartsWith(RaisedText(r, HttpAdapter), <<"Llama-server HTTP error: ">>)
            /\ (ChatResponse(r).status \in SuccessStatuses
                    /\ ChatResponse(r).payload = "choices") =>
                    /\ Entries(r, HttpAdapter, "return") # {}
                    /\ ReturnedValue(r, HttpAdapter) = HttpAnswer

\* The payload deviates from the shape choices[0].message.content.
MalformedPayloads == {"no_choices", "empty_choices", "no_message"}

\* C26: a success-status response whose payload has no "choices" key, an
\* empty choices list or a first choice without message.content makes the
\* HTTP adapter fail with "Invalid response format from llama-server", a
\* failure distinct from that of a non-2xx status.
C26_MalformedPayloadRejected ==
    \A r \in Reqs :
        (ChatAnswered(r) /\ ChatResponse(r).status \in SuccessStatuses
            /\ ChatResponse(r).payload \in MalformedPayloads) =>
            /\ HttpAdapterDone(r)
            /\ Entries(r, HttpAdapter, "return") = {}
            /\ RaisedText(r, HttpAdapter) = <<"Invalid response format from llama-server">>
            /\ ~StartsWith(RaisedText(r, HttpAdapter), <<"Llama-server HTTP error: ">>)

----------------------------------------------------------------------------
(* Further claims about model resolution *)

\* C27: model resolution never raises: for every identifier and every
\* state of the filesystem (no base directory, a missing or unreadable model
\* subdirectory, a subdirectory without .gguf file) resolve_model_path
\* gives an artifact path or absence, and is_llamacpp_available is true
\* exactly when it gives a path.
C27_ResolutionNeverRaises ==
    \A r \in Reqs :
        LET found == resolve_model_path(fs, local[r].model)
        IN  /\ found.t \in {"None", "str"}
            /\ found.t = "str" => StartsWith(found.v, GGUF_DIR)
            /\ is_llamacpp_available(fs, local[r].model) = (found.t = "str")
            /\ CheckedUnchanged(r) => local[r].available = (found.t = "str")
            /\ local[r].model_path.t \in {"None", "str"}

C27_Witness ==
    \E r \in Reqs :
        /\ fs = FsNoGguf /\ CheckedUnchanged(r) /\ Finished(r)
        /\ local[r].model = DirIQ2
        /\ ~local[r].available
        /\ Attempted(r) = {"chat_with_ollama"}

\* The request was answered with 200.
Succeeded(r) == Finished(r) /\ response[r].status = 200

\* C28: resolution is recomputed, never cached: a successful cli-mode
\* request for a local model performs the filesystem lookup exactly twice
\* (the router's availability check and the process adapter's own), a
\* successful server-mode request, or a request for a model that is not
\* local, exactly once.
C28_LookupsPerRequest ==
    \A r \in Reqs :
        (Succeeded(r) /\ local[r].llama_mode \in {ModeCli, ModeServer}) =>
            /\ (local[r].llama_mode = ModeCli /\ local[r].available) => Resolutions(r) = 2
            /\ (local[r].llama_mode = ModeServer \/ ~local[r].available) => Resolutions(r) = 1

----------------------------------------------------------------------------
(* Claims about order and termination *)

\* The backend adapters called for r, in the order of their calls.
RECURSIVE AdapterSeq(_, _)
AdapterSeq(r, i) ==
    IF i > Len(calls[r]) THEN << >>
    ELSE (IF i \in AdapterCalls(r) THEN <<calls[r][i].fn>> ELSE << >>) \o AdapterSeq(r, i + 1)

IsPrefix(s, t) == Len(s) <= Len(t) /\ s = SubSeq(t, 1, Len(s))

\* The chain of backends for a mode and an availability.
Chain(mode, available) ==
    IF ~available THEN <<"chat_with_ollama">>
    ELSE IF mode = ModeServer
    THEN <<"chat_with_llama_server_http", "chat_with_llamacpp", "chat_with_ollama">>
    ELSE <<"chat_with_llamacpp", "chat_with_ollama">>

\* C29: within one router call the backends are attempted in a fixed order,
\* one after another: HTTP, process, managed in server mode with a local
\* model; process, managed in cli mode with a local model; a backend is
\* invoked only after every earlier backend of the chain has failed, and
\* none is invoked after one has succeeded.
C29_FixedBackendOrder ==
    \A r \in Reqs :
        /\ Attempted(r) # {} => AvailabilityChecked(r)
        /\ IsPrefix(AdapterSeq(r, 1), Chain(local[r].mode, local[r].available))
        /\ \A i \in AdapterCalls(r) :
                /\ \A j \in AdapterCalls(r) :
                        j < i => \E k \in Entries(r, calls[r][j].fn, "raise") : j < k /\ k < i
                /\ \A b \in Adapters : \A k \in Entries(r, b, "return") : i < k

C29_Witness ==
    \E r \in Reqs :
        /\ RouterDone(r) /\ local[r].llama_mode = ModeServer /\ local[r].available
        /\ AdapterSeq(r, 1) =
                <<"chat_with_llama_server_http", "chat_with_llamacpp", "chat_with_ollama">>
        /\ Entries(r, "chat_with_ollama", "return") # {}

\* C30: every /chat request eventually receives exactly one response,
\* whatever the mode string, the availability and the outcomes of the
\* backends (every lookup and backend call returning or failing); an unknown
\* mode re-enters the router at most once.
C30_EveryRequestAnswered ==
    /\ <>(\A r \in Reqs : Finished(r))
    /\ [](\A r \in Reqs :
            /\ Finished(r) <=> response[r] # NoResponse
            /\ Count(r, "chat_with_model") <=
                    (IF local[r].llama_mode \in {ModeCli, ModeServer} THEN 1 ELSE 2))
    /\ [][\A r \in Reqs : response[r] # NoResponse => response'[r] = response[r]]_vars

C30_Witness ==
    \E r \in Reqs :
        /\ Finished(r) /\ local[r].llama_mode = <<"invalid">>
        /\ Count(r, "chat_with_model") = 2
        /\ response[r].status = 200

\* chat() has read the parameters of r (line 268 always yields a mode).
ParamsRead(r) == local[r].llama_mode # << >>

\* C31: the pipeline runs authenticate, then validate content, then route.
\* A request with a bad key and blank content is never answered with the
\* validation error, and is answered with the authentication error once the
\* credential store has answered; the parameters are read and the content
\* validated only for an authenticated request, and the router is entered
\* only after the content was found non-blank.
C31_AuthenticateValidateRoute ==
    \A r \in Reqs :
        /\ ParamsRead(r) => Authenticated(r)
        /\ RouterEntered(r) =>
                /\ ParamsRead(r)
                /\ local[r].content.t = "str" /\ Strip(local[r].content.v) # << >>
        /\ (BadKey(r) /\ (ContentMissingOrBlank(r) \/ ContentNull(r))) =>
                /\ ~ParamsRead(r)
                /\ Finished(r) =>
                        /\ ~RejectedWith(r, <<"Missing prompt content">>)
                        /\ ~RejectedWith(r, <<"'NoneType' object has no attribute 'strip'">>)
                        /\ (Count(r, "REDIS_CONNECTION.get") = 0 \/ StoreAnswered(r)) =>
                                /\ RejectedWith(r, <<"401 Unauthorized">>)
                                /\ \/ RejectedWith(r, <<"Missing API key">>)
                                   \/ RejectedWith(r, <<"Invalid API key">>)

C31_Witness ==
    \E r \in Reqs :
        /\ Finished(r)
        /\ request[r].headers = [h \in {"X-API-KEY"} |-> PyStr(<<"key-unknown">>)]
        /\ "content" \in DOMAIN request[r].json
        /\ request[r].json["content"] = PyStr(<<" ", "\n">>)
        /\ Count(r, "REDIS_CONNECTION.get") = 1
        /\ RejectedWith(r, <<"Invalid API key">>)
        /\ ~ParamsRead(r)

----------------------------------------------------------------------------
(* Claims about the listing and the resolution *)

\* The .gguf entries of the readable model directories: <<i, j>> is the
\* j-th name of the listing of the i-th configured directory.
GgufPairs(fsv) ==
    {p \in (1..Len(LLAMA_CPP_MODEL_DIRS)) \X (1..MaxListingLen) :
        LET entry == fsv[LLAMA_CPP_MODEL_DIRS[p[1]]]
        IN  /\ entry.kind = "dir" /\ p[2] <= Len(entry.files)
            /\ entry.files[p[2]][Len(entry.files[p[2]])] = ".gguf"}

PairDir(p) == LLAMA_CPP_MODEL_DIRS[p[1]]
PairFile(fsv, p) == fsv[PairDir(p)].files[p[2]]
PairEntry(fsv, p) == PairDir(p) \o <<"/">> \o PairFile(fsv, p)
PairPath(fsv, p) == GGUF_DIR \o <<"/">> \o PairDir(p) \o <<"/">> \o PairFile(fsv, p)

\* (configured directory order, directory listing order)
PairBefore(p, q) == p[1] < q[1] \/ (p[1] = q[1] /\ p[2] <= q[2])

\* The entries an identifier matches in one of its four forms.
PairsMatching(fsv, model) ==
    {p \in GgufPairs(fsv) :
        LET file == PairFile(fsv, p)
        IN  model \in {PairDir(p), PairEntry(fsv, p), file, SubSeq(file, 1, Len(file) - 1)}}

ListedModels(r) == ReturnedValue(r, "get_available_llamacpp_models")

\* C32: listing and resolution agree. The listing holds exactly the
\* "<dir>/<file>" entries of the .gguf files of the readable configured
\* directories; each such entry resolves to the path of that file in that
\* directory; an identifier matching several files resolves to the first
\* match in (configured directory order, directory listing order), and one
\* matching none resolves to absence.
C32_ListingAndResolutionAgree ==
    \A r \in Reqs :
        pc[r] = "done" =>
            LET model == local[r].model
                path == local[r].model_path
                matching == PairsMatching(fs, model)
            IN  /\ {ListedModels(r)[k] : k \in 1..Len(ListedModels(r))}
                        = {PairEntry(fs, p) : p \in GgufPairs(fs)}
                /\ Len(ListedModels(r)) = Cardinality(GgufPairs(fs))
                /\ \A p \in GgufPairs(fs) :
                        model = PairEntry(fs, p) => path = PyStr(PairPath(fs, p))
                /\ matching = {} => path = PyNone
                /\ \A p \in matching :
                        (\A q \in matching : PairBefore(p, q)) => path = PyStr(PairPath(fs, p))

C32_Witness ==
    \E r \in Reqs :
        /\ pc[r] = "done" /\ local[r].model = DirIQ2
        /\ fs[DirV25] = DirOf(<<FileNamedIQ2, FileOut>>)
        /\ fs[DirIQ2] = DirOf(<<FileOut, FileB>>)
        /\ Cardinality(PairsMatching(fs, DirIQ2)) = 3
        /\ Len(ListedModels(r)) >= 4
        /\ local[r].model_path = PyStr(PathJoin(PathJoin(GGUF_DIR, DirV25), FileNamedIQ2))

\* path is GGUF_DIR/<configured directory>/<name>, the name being a .gguf
\* entry of that directory's listing in one of the filesystem's states.
Confined(path) ==
    \E i \in 1..Len(LLAMA_CPP_MODEL_DIRS) : \E fsv \in FsStates :
        LET dir == LLAMA_CPP_MODEL_DIRS[i]
        IN  /\ fsv[dir].kind = "dir"
            /\ \E j \in 1..Len(fsv[dir].files) :
                LET file == fsv[dir].files[j]
                IN  /\ file[Len(file)] = ".gguf"
                    /\ \A k \in 1..Len(file) : file[k] \notin {"/", ".."}
                    /\ path = GGUF_DIR \o <<"/">> \o dir \o <<"/">> \o file

\* C33: resolved artifacts are confined. Whatever identifier the caller
\* supplies (path separators and ".." included), resolve_model_path gives
\* absence or the path of a .gguf entry listed directly in a configured model
\* directory under GGUF_DIR; the path given to the subprocess is that
\* resolved path, never one built from the identifier; an identifier that
\* walks the tree is never available and never reaches llama-cli.
C33_ResolvedArtifactsConfined ==
    \A r \in Reqs :
        /\ local[r].model_path # PyNone => Confined(local[r].model_path.v)
        /\ \A i \in Entries(r, "subprocess.run", "call") :
                /\ calls[r][i].args[3] = local[r].model_path.v
                /\ Confined(calls[r][i].args[3])
        /\ (AvailabilityChecked(r) /\ local[r].model \in TraversalIds) =>
                /\ ~local[r].available
                /\ local[r].model_path = PyNone
                /\ ~Invoked(r, "chat_with_llamacpp") /\ ~Invoked(r, "subprocess.run")

C33_Witness ==
    \E r \in Reqs :
        /\ Finished(r) /\ AvailabilityChecked(r)
        /\ local[r].model = DirIQ2 \o <<"/", "..", "/">> \o DirIQ2 \o <<"/">> \o FileOut
        /\ fs = FsOneModel /\ fsChanges = 0
        /\ Attempted(r) = {"chat_with_ollama"}
        /\ response[r].status = 200

====
